---- MODULE Spec2Model ----
(***************************************************************************)
(* A model of fetch_jira.py: the platform classifier detect_platform, the  *)
(* matrix aggregator build_dashboard_data, the detail aggregator           *)
(* build_detailed_data, the paged fetch fetch_jira_data and the run main.  *)
(* Each aggregator is its loop: one action consumes one issue, and the     *)
(* variable issues holds the list consumed so far. The fetch is its loop   *)
(* too: one action sends a request, one handles the response.              *)
(*                                                                         *)
(* JSON values are tagged records, so that the code's isinstance tests,    *)
(* truthiness tests and attribute errors can be told apart:                *)
(*   [t |-> "null"]            None                                        *)
(*   [t |-> "str",  s  |-> ..] a string                                    *)
(*   [t |-> "bool", b  |-> ..] True / False                                *)
(*   [t |-> "num",  n  |-> ..] a number                                    *)
(*   [t |-> "list", xs |-> ..] a list, xs the sequence of its elements     *)
(*   [t |-> "dict", kv |-> ..] a dict, kv the sequence of its entries      *)
(*                             [k |-> key, v |-> value] in insertion order *)
(* Text is TLA+ strings; upper(), join, the substring test and the [:10]   *)
(* slice are computed character by character.                              *)
(***************************************************************************)
EXTENDS Integers, Sequences, FiniteSets, TLC

VARIABLES
    pc,                  \* position of the running function
    issues,              \* the issues the running loop has consumed, in order
    cur,                 \* the issue of the call / loop iteration last run
    platform,            \* detect_platform's return value for cur
    matrix,              \* build_dashboard_data: platform -> status -> count
    total_bugs,          \* build_dashboard_data: diagnostic counters
    matched_counted,
    unmatched_platforms,
    unmatched_status,
    bug_status_breakdown,
    detailed,            \* build_detailed_data: the aggregate under construction
    item,                \* build_detailed_data: the per-issue summary of cur
    JIRA_EMAIL,          \* the credentials read from the environment
    JIRA_API_TOKEN,
    all_issues,          \* fetch_jira_data: the issues received so far
    next_page_token,     \* fetch_jira_data: the cursor of the next request
    payloads,            \* the payloads of the requests sent, in order
    response,            \* the response being handled, Null when there is none
    received,            \* the responses handled, in order
    data_json,           \* the document data.json, Null until main writes it
    detailed_json        \* the document detailed_data.json, likewise

vars == <<pc, issues, cur, platform, matrix, total_bugs, matched_counted,
          unmatched_platforms, unmatched_status, bug_status_breakdown,
          detailed, item, JIRA_EMAIL, JIRA_API_TOKEN, all_issues,
          next_page_token, payloads, response, received, data_json,
          detailed_json>>

-----------------------------------------------------------------------------
(* JSON values and the Python operations the code applies to them.         *)

Null == [t |-> "null"]
Str(s) == [t |-> "str", s |-> s]
Bool(b) == [t |-> "bool", b |-> b]
Num(n) == [t |-> "num", n |-> n]
List(xs) == [t |-> "list", xs |-> xs]
Dict(kv) == [t |-> "dict", kv |-> kv]
Entry(k, v) == [k |-> k, v |-> v]
EmptyDict == Dict(<<>>)
EmptyList == List(<<>>)

\* bool(v): None, '', [], {}, False and 0 are falsy.
Truthy(v) ==
    CASE v.t = "null" -> FALSE
      [] v.t = "str"  -> v.s # ""
      [] v.t = "bool" -> v.b
      [] v.t = "num"  -> v.n # 0
      [] v.t = "list" -> v.xs # <<>>
      [] v.t = "dict" -> v.kv # <<>>

\* key in d, for a dict d.
Has(d, key) == \E i \in DOMAIN d.kv : d.kv[i].k = key

\* d.get(key, default), for a dict d.
Get(d, key, default) ==
    IF Has(d, key)
    THEN d.kv[CHOOSE i \in DOMAIN d.kv : d.kv[i].k = key].v
    ELSE default

\* a or b
Or(a, b) == IF Truthy(a) THEN a ELSE b

LowerChars == "abcdefghijklmnopqrstuvwxyz"
UpperChars == "ABCDEFGHIJKLMNOPQRSTUVWXYZ"

\* The upper-case letter of each lower-case letter.
UpperOf ==
    [c \in {SubSeq(LowerChars, i, i) : i \in 1..Len(LowerChars)} |->
        SubSeq(UpperChars,
               CHOOSE i \in 1..Len(LowerChars) : SubSeq(LowerChars, i, i) = c,
               CHOOSE i \in 1..Len(LowerChars) : SubSeq(LowerChars, i, i) = c)]

\* str.upper() on one character.
UpperChar(c) == IF c \in DOMAIN UpperOf THEN UpperOf[c] ELSE c

\* str.upper()
RECURSIVE Upper(_)
Upper(s) ==
    IF s = "" THEN ""
    ELSE UpperChar(SubSeq(s, 1, 1)) \o Upper(SubSeq(s, 2, Len(s)))

\* sep.join(parts)
RECURSIVE Join(_, _)
Join(sep, parts) ==
    IF parts = <<>> THEN ""
    ELSE IF Len(parts) = 1 THEN parts[1]
    ELSE parts[1] \o sep \o Join(sep, Tail(parts))

\* pattern in text
Contains(pattern, text) ==
    \E i \in 1..(Len(text) - Len(pattern) + 1) :
        SubSeq(text, i, i + Len(pattern) - 1) = pattern

\* s.startswith(prefix)
StartsWith(s, prefix) ==
    Len(s) >= Len(prefix) /\ SubSeq(s, 1, Len(prefix)) = prefix

\* s[:n]
Slice(s, n) == IF Len(s) <= n THEN s ELSE SubSeq(s, 1, n)

\* The sequence a for-loop or comprehension walks over v: the elements of a
\* list, the characters of a string, the keys of a dict.
Iter(v) ==
    CASE v.t = "list" -> v.xs
      [] v.t = "str"  -> [i \in 1..Len(v.s) |-> Str(SubSeq(v.s, i, i))]
      [] v.t = "dict" -> [i \in DOMAIN v.kv |-> Str(v.kv[i].k)]
      [] OTHER        -> <<>>
Iterable(v) == v.t \in {"list", "str", "dict"}

RECURSIVE Flatten(_)
Flatten(ss) == IF ss = <<>> THEN <<>> ELSE Head(ss) \o Flatten(Tail(ss))

-----------------------------------------------------------------------------
(* Module constants.                                                       *)

PLATFORMS == <<"ANDROID", "ATV", "CMS", "CMS Adaptor", "CMS Dashboard", "DishIT",
               "IOS", "Kaltura", "LG_TV", "Mobile", "SAM_TV", "WEB">>
STATUSES == <<"OPEN", "IN PROGRESS", "REOPENED", "IN REVIEW", "ISSUE ACCEPTED",
              "PARKED">>

Range(s) == {s[i] : i \in DOMAIN s}

-----------------------------------------------------------------------------
(* detect_platform                                                         *)

\* The same table with its rows in the order of PLATFORMS (alphabetical).
platform_patterns_alphabetical ==
    << [platform |-> "ANDROID", patterns |-> <<"ANDROID">>],
       [platform |-> "ATV", patterns |-> <<"ATV", "ANDROID TV", "ANDROID_TV",
            "ANDROIDTV", "FIRE TV", "FIRETV", "FIRE_TV">>],
       [platform |-> "CMS", patterns |-> <<"CMS">>],
       [platform |-> "CMS Adaptor", patterns |-> <<"CMS ADAPTOR", "CMS_ADAPTOR",
            "CMSADAPTOR">>],
       [platform |-> "CMS Dashboard", patterns |-> <<"CMS DASHBOARD",
            "CMS_DASHBOARD", "CMSDASHBOARD">>],
       [platform |-> "DishIT", patterns |-> <<"DISHIT", "DISH IT", "DISH_IT">>],
       [platform |-> "IOS", patterns |-> <<"IOS", "APPLE", "IPHONE", "IPAD">>],
       [platform |-> "Kaltura", patterns |-> <<"KALTURA">>],
       [platform |-> "LG_TV", patterns |-> <<"LG_TV", "LGTV", "LG TV", "WEBOS",
            "LG-TV">>],
       [platform |-> "Mobile", patterns |-> <<"MOBILE">>],
       [platform |-> "SAM_TV", patterns |-> <<"SAM_TV", "SAMTV", "SAM TV",
            "SAMSUNG TV", "SAMSUNG_TV", "TIZEN", "SAM-TV">>],
       [platform |-> "WEB", patterns |-> <<"WEB">>] >>

\* The dict literal platform_patterns, in insertion order.
platform_patterns ==
    << [platform |-> "CMS Adaptor", patterns |-> <<"CMS ADAPTOR", "CMS_ADAPTOR",
            "CMSADAPTOR">>],
       [platform |-> "CMS Dashboard", patterns |-> <<"CMS DASHBOARD",
            "CMS_DASHBOARD", "CMSDASHBOARD">>],
       [platform |-> "Kaltura", patterns |-> <<"KALTURA">>],
       [platform |-> "DishIT", patterns |-> <<"DISHIT", "DISH IT", "DISH_IT">>],
       [platform |-> "LG_TV", patterns |-> <<"LG_TV", "LGTV", "LG TV", "WEBOS",
            "LG-TV">>],
       [platform |-> "SAM_TV", patterns |-> <<"SAM_TV", "SAMTV", "SAM TV",
            "SAMSUNG TV", "SAMSUNG_TV", "TIZEN", "SAM-TV">>],
       [platform |-> "ATV", patterns |-> <<"ATV", "ANDROID TV", "ANDROID_TV",
            "ANDROIDTV", "FIRE TV", "FIRETV", "FIRE_TV">>],
       [platform |-> "Mobile", patterns |-> <<"MOBILE">>],
       [platform |-> "ANDROID", patterns |-> <<"ANDROID">>],
       [platform |-> "IOS", patterns |-> <<"IOS", "APPLE", "IPHONE", "IPAD">>],
       [platform |-> "WEB", patterns |-> <<"WEB">>],
       [platform |-> "CMS", patterns |-> <<"CMS">>] >>

\* fields = issue.get('fields', {})
FieldsOf(issue) == Get(issue, "fields", EmptyDict)

\* (val.get('value', '') or val.get('name', '')): the text of a dict-valued
\* custom field, before .upper().
DictText(val) == Or(Get(val, "value", Str("")), Get(val, "name", Str("")))

\* The strings one custom-field value appends to custom_vals.
CustomValsOf(val) ==
    CASE val.t = "str"  -> <<Upper(val.s)>>
      [] val.t = "dict" -> <<Upper(DictText(val).s)>>
      [] val.t = "list" ->
            Flatten([i \in DOMAIN val.xs |->
                CASE val.xs[i].t = "str"  -> <<Upper(val.xs[i].s)>>
                  [] val.xs[i].t = "dict" -> <<Upper(DictText(val.xs[i]).s)>>
                  [] OTHER                -> <<>>])
      [] OTHER          -> <<>>

\* Whether the custom-field walk calls .upper() on something that is no string.
CustomValRaises(val) ==
    CASE val.t = "dict" -> DictText(val).t # "str"
      [] val.t = "list" ->
            \E i \in DOMAIN val.xs :
                val.xs[i].t = "dict" /\ DictText(val.xs[i]).t # "str"
      [] OTHER          -> FALSE

\* The entries of fields the loops over custom fields look at:
\* key.startswith('customfield_') and val
IsCustom(e) == StartsWith(e.k, "customfield_") /\ Truthy(e.v)

\* all_text = ' '.join(labels + components + custom_vals + [summary])
AllText(issue) ==
    LET fields     == FieldsOf(issue)
        lv         == Iter(Get(fields, "labels", EmptyList))
        cv         == Iter(Get(fields, "components", EmptyList))
        labels     == [i \in DOMAIN lv |-> Upper(lv[i].s)]
        components == [i \in DOMAIN cv |-> Upper(Get(cv[i], "name", Str("")).s)]
        summary    == Upper(Or(Get(fields, "summary", Null), Str("")).s)
        custom_vals ==
            Flatten([i \in DOMAIN fields.kv |->
                IF IsCustom(fields.kv[i]) THEN CustomValsOf(fields.kv[i].v)
                ELSE <<>>])
    IN  Join(" ", labels \o components \o custom_vals \o <<summary>>)

\* The loop over platform_patterns.items() from row i on: the first row with a
\* pattern in the text returns its platform; falling off the end returns None.
RECURSIVE ScanPatterns(_, _, _)
ScanPatterns(table, text, i) ==
    IF i > Len(table) THEN Null
    ELSE IF \E j \in DOMAIN table[i].patterns : Contains(table[i].patterns[j], text)
         THEN Str(table[i].platform)
         ELSE ScanPatterns(table, text, i + 1)

\* Whether detect_platform(issue) raises: an attribute error on a value that
\* is not of the type the code calls a method of, or a loop over a value that
\* is not iterable.
detect_platform_raises(issue) ==
    LET fields == FieldsOf(issue) IN
    \/ fields.t # "dict"
    \/ LET labels == Get(fields, "labels", EmptyList) IN
       \/ ~Iterable(labels)
       \/ \E i \in DOMAIN Iter(labels) : Iter(labels)[i].t # "str"
    \/ LET components == Get(fields, "components", EmptyList) IN
       \/ ~Iterable(components)
       \/ \E i \in DOMAIN Iter(components) :
            \/ Iter(components)[i].t # "dict"
            \/ Get(Iter(components)[i], "name", Str("")).t # "str"
    \/ Or(Get(fields, "summary", Null), Str("")).t # "str"
    \/ \E i \in DOMAIN fields.kv :
            IsCustom(fields.kv[i]) /\ CustomValRaises(fields.kv[i].v)

\* detect_platform(issue), when it returns: a platform name or None.
detect_platform(issue) == ScanPatterns(platform_patterns, AllText(issue), 1)

-----------------------------------------------------------------------------
(* Issues as the issue source delivers them.                               *)

\* An entry of a dict under construction, left out when the value is absent.
Absent == [t |-> "absent"]
Opt(k, v) == IF v.t = "absent" THEN <<>> ELSE <<Entry(k, v)>>

Named(name) == Dict(<<Entry("name", Str(name))>>)
StrList(ss) == List([i \in DOMAIN ss |-> Str(ss[i])])

\* Sequences over S of length at most n.
SeqsUpTo(S, n) == UNION {[1..k -> S] : k \in 0..n}

-----------------------------------------------------------------------------
(* The classifier on its own: one call of detect_platform on one issue.    *)

MaxLabels == 2

LabelPool == {"ios", "lg", "tv", "android"}
ComponentsPool ==
    { Absent, List(<<Named("CMS")>>), List(<<Named("Web"), Named("Adaptor")>>),
      List(<<EmptyDict>>) }
ClassifyCustomPool ==
    { Absent,
      Str("Samsung TV"),
      Dict(<<Entry("value", Str("Mobile"))>>),
      Dict(<<Entry("value", Str("")), Entry("name", Str("FireTV"))>>),
      List(<<Str("webos"), Dict(<<Entry("name", Str("Kaltura"))>>), Num(7)>>),
      Num(42) }
SummaryPool ==
    { Absent, Null, Str("Android TV crash"), Str("Login scenarios fail"),
      Str("cms dashboard down"), Str("Player stuck") }

ClassifyIssue(labels, components, custom, summary) ==
    Dict(<<Entry("key", Str("VZY-1")),
           Entry("fields", Dict(
               Opt("summary", summary)
            \o <<Entry("labels", StrList(labels))>>
            \o Opt("components", components)
            \o Opt("customfield_10020", custom)))>>)

ClassifyIssues ==
    { ClassifyIssue(l, c, x, s) :
        l \in SeqsUpTo(LabelPool, MaxLabels), c \in ComponentsPool,
        x \in ClassifyCustomPool, s \in SummaryPool }

EmptyMap == [k \in {} |-> 0]

\* matrix = {}; for p in PLATFORMS: matrix[p] = {s: 0 for s in STATUSES}
SeedMatrix == [p \in Range(PLATFORMS) |-> [s \in Range(STATUSES) |-> 0]]

\* detailed = {'bugs': [], ..., 'priority_breakdown': {}}
EmptyDetailed ==
    [bugs |-> <<>>, tasks |-> <<>>, subtasks |-> <<>>, stories |-> <<>>,
     sprints |-> EmptyMap, releases |-> EmptyMap,
     assignee_workload |-> EmptyMap, priority_breakdown |-> EmptyMap]

\* The aggregators' state before their loops start.
FreshAggregates ==
    /\ matrix = SeedMatrix
    /\ total_bugs = 0
    /\ matched_counted = 0
    /\ unmatched_platforms = 0
    /\ unmatched_status = 0
    /\ bug_status_breakdown = EmptyMap
    /\ detailed = EmptyDetailed
    /\ item = Null

dashVars == <<matrix, total_bugs, matched_counted, unmatched_platforms,
              unmatched_status, bug_status_breakdown>>
detVars == <<detailed, item>>
fetchVars == <<all_issues, next_page_token, payloads, response, received>>
mainVars == <<JIRA_EMAIL, JIRA_API_TOKEN, fetchVars, data_json, detailed_json>>

\* fetch_jira_data's state before its loop starts.
FreshFetch ==
    /\ all_issues = <<>>
    /\ next_page_token = Null
    /\ payloads = <<>>
    /\ response = Null
    /\ received = <<>>

\* Neither output document has been written.
NoDocuments ==
    /\ data_json = Null
    /\ detailed_json = Null

\* A function called on its own, outside a run of main.
OutsideMain ==
    /\ JIRA_EMAIL = ""
    /\ JIRA_API_TOKEN = ""
    /\ FreshFetch
    /\ NoDocuments

InitClassify ==
    /\ pc = "call"
    /\ issues = <<>>
    /\ cur \in ClassifyIssues
    /\ platform = Null
    /\ FreshAggregates
    /\ OutsideMain

\* platform = detect_platform(issue)
DetectPlatform ==
    /\ pc = "call"
    /\ IF detect_platform_raises(cur)
       THEN pc' = "raised" /\ platform' = platform
       ELSE pc' = "returned" /\ platform' = detect_platform(cur)
    /\ UNCHANGED <<issues, cur, dashVars, detVars, mainVars>>

NextClassify == DetectPlatform

SpecClassify == InitClassify /\ [][NextClassify]_vars

-----------------------------------------------------------------------------
(* C1                                                                      *)

\* The order of the platforms the classifier is to follow.
ClassifierOrder ==
    <<"CMS Adaptor", "CMS Dashboard", "Kaltura", "DishIT", "LG_TV", "SAM_TV",
      "ATV", "Mobile", "ANDROID", "IOS", "WEB", "CMS">>

\* Whether some pattern of the platform occurs in the text.
PlatformOccurs(p, text) ==
    \E i \in DOMAIN platform_patterns_alphabetical :
        /\ platform_patterns_alphabetical[i].platform = p
        /\ \E j \in DOMAIN platform_patterns_alphabetical[i].patterns :
              Contains(platform_patterns_alphabetical[i].patterns[j], text)

\* C1: detect_platform returns None exactly when no pattern of any platform
\* occurs in the upper-cased corpus, and otherwise the one platform that comes
\* first in the fixed order among those with a pattern occurring in it; a
\* corpus holding "ANDROID TV CRASH" and no earlier platform's pattern is ATV.
C1_FirstPlatformInOrder ==
    pc = "returned" =>
        LET text == AllText(cur)
            hits == {k \in DOMAIN ClassifierOrder :
                        PlatformOccurs(ClassifierOrder[k], text)}
        IN  /\ platform.t \in {"null", "str"}
            /\ (platform.t = "null") <=> (hits = {})
            /\ hits # {} =>
                 platform = Str(ClassifierOrder[CHOOSE k \in hits :
                                                   \A m \in hits : k <= m])
            /\ text = "ANDROID TV CRASH" => platform = Str("ATV")

\* A call whose corpus matches patterns of both ATV and ANDROID, and of no
\* platform before ATV, has returned.
C1_Witness ==
    /\ pc = "returned"
    /\ AllText(cur) = "ANDROID TV CRASH"
    /\ platform = Str("ATV")

-----------------------------------------------------------------------------
(* build_dashboard_data                                                    *)

\* fields.get('status', {}).get('name', '')
StatusNameOf(issue) ==
    Get(Get(FieldsOf(issue), "status", EmptyDict), "name", Str(""))

\* fields.get('issuetype', {}).get('name', '')
IssueTypeOf(issue) ==
    Get(Get(FieldsOf(issue), "issuetype", EmptyDict), "name", Str(""))

\* Whether one iteration of build_dashboard_data's loop raises.
build_dashboard_data_raises(issue) ==
    \/ FieldsOf(issue).t # "dict"
    \/ Get(FieldsOf(issue), "status", EmptyDict).t # "dict"
    \/ Get(FieldsOf(issue), "issuetype", EmptyDict).t # "dict"
    \/ detect_platform_raises(issue)
    \/ StatusNameOf(issue).t # "str"
    \/ IssueTypeOf(issue).t # "str"

\* issue_type.upper() == 'BUG'
IsBug(type_name) == Upper(type_name) = "BUG"

\* A no-match always takes the platform-unmatched branch.
DiagnosticBranchUnmatchedFirst(p, status_upper) ==
    IF ~Truthy(p) THEN "unmatched_platforms"
    ELSE IF status_upper \in Range(STATUSES) THEN "matched_counted"
    ELSE "unmatched_status"

\* The third test also asks for a tracked status, so a bug with neither a
\* platform nor a tracked status takes no branch.
DiagnosticBranchNoElse(p, status_upper) ==
    IF status_upper \in Range(STATUSES) THEN "matched_counted"
    ELSE IF Truthy(p) /\ status_upper \notin Range(STATUSES) THEN "unmatched_status"
    ELSE IF ~Truthy(p) /\ status_upper \in Range(STATUSES) THEN "unmatched_platforms"
    ELSE "none"

\* The if / elif / elif chain a bug goes through: the name of the counter the
\* branch taken increments, "none" when no branch is taken.
DiagnosticBranch(p, status_upper) ==
    IF status_upper \in Range(STATUSES) THEN "matched_counted"
    ELSE IF Truthy(p) /\ status_upper \notin Range(STATUSES) THEN "unmatched_status"
    ELSE IF ~Truthy(p) THEN "unmatched_platforms"
    ELSE "none"

\* The row key is the classifier's result as it is, None spelled out.
ActualPlatformNoDefault(p) == IF p.t = "str" THEN p.s ELSE "None"

\* actual_platform = platform if platform else 'Unknown'
ActualPlatform(p) == IF Truthy(p) THEN p.s ELSE "Unknown"

\* if actual_platform not in matrix: matrix[actual_platform] = {zeros}
\* matrix[actual_platform][status_upper] += 1
CountCell(m, actual_platform, status_upper) ==
    LET withRow == IF actual_platform \in DOMAIN m THEN m
                   ELSE m @@ (actual_platform :> [s \in Range(STATUSES) |-> 0])
    IN  [withRow EXCEPT ![actual_platform][status_upper] = @ + 1]

\* d[k] = d.get(k, 0) + 1
Incr(d, k) ==
    IF k \in DOMAIN d THEN [d EXCEPT ![k] = @ + 1] ELSE d @@ (k :> 1)

\* One iteration of the loop of build_dashboard_data.
DashboardIssue(issue) ==
    /\ pc = "dashboard"
    /\ cur' = issue
    /\ IF build_dashboard_data_raises(issue)
       THEN /\ pc' = "raised"
            /\ UNCHANGED <<issues, platform, dashVars>>
       ELSE \E p \in {detect_platform(issue)} :
            LET status_name  == StatusNameOf(issue).s
                issue_type   == IssueTypeOf(issue).s
                status_upper == Upper(status_name)
                branch == IF IsBug(issue_type)
                          THEN DiagnosticBranch(p, status_upper) ELSE "skip"
            IN  /\ pc' = "dashboard"
                /\ issues' = Append(issues, issue)
                /\ platform' = p
                /\ total_bugs' = total_bugs + (IF IsBug(issue_type) THEN 1 ELSE 0)
                /\ bug_status_breakdown' =
                        IF IsBug(issue_type)
                        THEN Incr(bug_status_breakdown, status_name)
                        ELSE bug_status_breakdown
                /\ matrix' = IF branch = "matched_counted"
                             THEN CountCell(matrix, ActualPlatform(p), status_upper)
                             ELSE matrix
                /\ matched_counted' =
                        matched_counted + (IF branch = "matched_counted" THEN 1 ELSE 0)
                /\ unmatched_status' =
                        unmatched_status + (IF branch = "unmatched_status" THEN 1 ELSE 0)
                /\ unmatched_platforms' =
                        unmatched_platforms
                        + (IF branch = "unmatched_platforms" THEN 1 ELSE 0)
    /\ UNCHANGED <<detVars, mainVars>>

\* The loop is over: the summary is printed and the matrix returned.
DashboardReturn ==
    /\ pc = "dashboard"
    /\ pc' = "dashboard_returned"
    /\ UNCHANGED <<issues, cur, platform, dashVars, detVars, mainVars>>

MaxDashIssues == 2

DashTypePool == {Named("Bug"), Named("bug"), Named("Task")}
DashStatusPool == {Absent, Named("Open"), Named("In Progress"), Named("Closed")}
DashSignalPool == {"none", "ios", "CMS"}

\* An issue of the given type and status whose only platform signal is a
\* label 'ios', a component 'CMS', or nothing.
DashIssue(type, status, signal) ==
    Dict(<<Entry("key", Str("VZY-1")),
           Entry("fields", Dict(
               <<Entry("summary", Str("Player stuck"))>>
            \o Opt("issuetype", type)
            \o Opt("status", status)
            \o <<Entry("labels",
                       StrList(IF signal = "ios" THEN <<"ios">> ELSE <<>>)),
                 Entry("components",
                       List(IF signal = "CMS" THEN <<Named("CMS")>> ELSE <<>>))>>))>>)

DashIssues ==
    { DashIssue(ty, st, sg) :
        ty \in DashTypePool, st \in DashStatusPool, sg \in DashSignalPool }

InitDashboard ==
    /\ pc = "dashboard"
    /\ issues = <<>>
    /\ cur = Null
    /\ platform = Null
    /\ FreshAggregates
    /\ OutsideMain

NextDashboard ==
    \/ /\ pc = "dashboard" /\ Len(issues) < MaxDashIssues
       /\ \E issue \in DashIssues : DashboardIssue(issue)
    \/ DashboardReturn

SpecDashboard == InitDashboard /\ [][NextDashboard]_vars

-----------------------------------------------------------------------------
(* C2, C3, C4                                                              *)

\* Whether the issue's type name is the given word, ignoring case.
TypeIs(issue, word) == Upper(IssueTypeOf(issue).s) = Upper(word)

\* Whether the issue's status name is one of the six tracked ones, ignoring case.
StatusTracked(issue) == Upper(StatusNameOf(issue).s) \in Range(STATUSES)

\* A step of the dashboard loop that has consumed an issue (cur' is the issue).
DashboardConsumed == pc = "dashboard" /\ issues' = Append(issues, cur')

BugCount(list) == Cardinality({i \in DOMAIN list : TypeIs(list[i], "BUG")})

\* C2: every bug-like issue increments the total and exactly one of the three
\* diagnostic counters, an issue that is not bug-like increments none of the
\* four, and so the three counters sum to the number of bugs consumed.
C2_ExactlyOneCounter ==
    [][DashboardConsumed =>
        LET d_matched  == matched_counted' - matched_counted
            d_status   == unmatched_status' - unmatched_status
            d_platform == unmatched_platforms' - unmatched_platforms
            d_total    == total_bugs' - total_bugs
        IN  /\ {d_matched, d_status, d_platform} \subseteq {0, 1}
            /\ IF TypeIs(cur', "BUG")
               THEN d_total = 1 /\ d_matched + d_status + d_platform = 1
               ELSE d_total = 0 /\ d_matched + d_status + d_platform = 0
            /\ total_bugs' = BugCount(issues')
            /\ matched_counted' + unmatched_status' + unmatched_platforms'
                 = total_bugs']_vars

\* Two bugs have been consumed that took different untracked-status branches,
\* and the function has returned.
C2_Witness ==
    /\ pc = "dashboard_returned"
    /\ total_bugs = 2
    /\ unmatched_status = 1
    /\ unmatched_platforms = 1

\* C3 as stated: every bug-like issue with no platform match increments the
\* platform-unmatched counter and changes nothing else, whatever its status.
C3_UnmatchedOnlyAnyStatus ==
    [][(DashboardConsumed /\ TypeIs(cur', "BUG") /\ platform' = Null) =>
        /\ unmatched_platforms' = unmatched_platforms + 1
        /\ matrix' = matrix
        /\ matched_counted' = matched_counted
        /\ unmatched_status' = unmatched_status]_vars

\* C3 (amended): a bug-like issue with no platform match and an untracked
\* status increments the platform-unmatched counter and changes no cell and no
\* other branch counter; with a tracked status it is counted in the Unknown row
\* and in matched-and-counted instead, and platform-unmatched stays as it is.
C3_UnmatchedOnlyWhenUntracked ==
    [][(DashboardConsumed /\ TypeIs(cur', "BUG") /\ platform' = Null) =>
        IF StatusTracked(cur')
        THEN /\ unmatched_platforms' = unmatched_platforms
             /\ matched_counted' = matched_counted + 1
             /\ unmatched_status' = unmatched_status
             /\ "Unknown" \in DOMAIN matrix'
             /\ matrix'["Unknown"][Upper(StatusNameOf(cur').s)] =
                  (IF "Unknown" \in DOMAIN matrix
                   THEN matrix["Unknown"][Upper(StatusNameOf(cur').s)] ELSE 0) + 1
        ELSE /\ unmatched_platforms' = unmatched_platforms + 1
             /\ matrix' = matrix
             /\ matched_counted' = matched_counted
             /\ unmatched_status' = unmatched_status]_vars

\* Both cases have happened: an unclassified bug with a tracked status and one
\* with an untracked status.
C3_Witness ==
    /\ Len(issues) = 2
    /\ \A i \in 1..2 : TypeIs(issues[i], "BUG") /\ detect_platform(issues[i]) = Null
    /\ StatusTracked(issues[1])
    /\ ~StatusTracked(issues[2])
    /\ unmatched_platforms = 1
    /\ matched_counted = 1

\* The cell an issue is counted in: its classified platform, or Unknown, and
\* its upper-cased status; no cell when it is no bug or its status is untracked.
CellOf(issue) ==
    IF TypeIs(issue, "BUG") /\ StatusTracked(issue)
    THEN LET p == detect_platform(issue)
         IN  <<IF p = Null THEN "Unknown" ELSE p.s, Upper(StatusNameOf(issue).s)>>
    ELSE <<>>

\* C4: the matrix is the seed (twelve static platforms by six tracked statuses)
\* plus one per bug-like issue with a tracked status, in the cell of its
\* classified platform (Unknown when unclassified) and upper-cased status; its
\* rows are the static platforms and the rows such bugs made necessary, each
\* with exactly the six statuses. Other issues change no cell and add no row.
C4_MatrixIsSeedPlusTrackedBugs ==
    pc \in {"dashboard", "dashboard_returned"} =>
        LET cells == {<<i, CellOf(issues[i])>> : i \in DOMAIN issues}
        IN  /\ DOMAIN matrix =
                  Range(PLATFORMS) \cup {c[2][1] : c \in {d \in cells : d[2] # <<>>}}
            /\ \A p \in DOMAIN matrix :
                  /\ DOMAIN matrix[p] = Range(STATUSES)
                  /\ \A s \in Range(STATUSES) :
                        matrix[p][s] = Cardinality({c \in cells : c[2] = <<p, s>>})

\* A Bug/Open issue labelled 'ios' and an unclassified Bug/Open issue have been
\* consumed: IOS/OPEN and Unknown/OPEN are 1.
C4_Witness ==
    /\ pc = "dashboard_returned"
    /\ issues = <<DashIssue(Named("Bug"), Named("Open"), "ios"),
                  DashIssue(Named("bug"), Named("Open"), "none")>>
    /\ matrix["IOS"]["OPEN"] = 1
    /\ matrix["Unknown"]["OPEN"] = 1

-----------------------------------------------------------------------------
(* build_detailed_data                                                     *)
(* The names the code uses as mapping keys (assignee display name, priority *)
(* name, status name, sprint name, version name) are strings whenever the   *)
(* issue carries them; what may be absent, null or of another shape is the  *)
(* field that holds them.                                                   *)

\* fields.get('priority', {}).get('name', 'None') if fields.get('priority') else 'None'
PriorityOf(issue) ==
    LET v == Get(FieldsOf(issue), "priority", Null)
    IN  IF Truthy(v) THEN Get(v, "name", Str("None")).s ELSE "None"

\* fields.get('assignee', {}).get('displayName', 'Unassigned')
\*     if fields.get('assignee') else 'Unassigned'
AssigneeOf(issue) ==
    LET v == Get(FieldsOf(issue), "assignee", Null)
    IN  IF Truthy(v) THEN Get(v, "displayName", Str("Unassigned")).s ELSE "Unassigned"

\* fix_versions = fields.get('fixVersions', []) or []
FixVersionsOf(issue) == Iter(Or(Get(FieldsOf(issue), "fixVersions", EmptyList), EmptyList))

\* [v.get('name', '') for v in fix_versions if v.get('name')]
FixVersionNames(fix_versions) ==
    Flatten([i \in DOMAIN fix_versions |->
        IF Truthy(Get(fix_versions[i], "name", Null))
        THEN <<Get(fix_versions[i], "name", Str("")).s>> ELSE <<>>])

\* isinstance(v, dict) and 'name' in v and 'state' in v
IsSprintObject(v) == v.t = "dict" /\ Has(v, "name") /\ Has(v, "state")

\* The assignments one custom-field value makes to sprint_name, in order: the
\* names of the sprint objects it holds.
SprintNamesIn(val) ==
    CASE val.t = "list" ->
            Flatten([i \in DOMAIN val.xs |->
                IF IsSprintObject(val.xs[i])
                THEN <<Get(val.xs[i], "name", Null)>> ELSE <<>>])
      [] IsSprintObject(val) -> <<Get(val, "name", Null)>>
      [] OTHER -> <<>>

\* The first assignment to sprint_name is kept.
SprintNameOfFirst(issue) ==
    LET fields == FieldsOf(issue)
        assigned == Flatten([i \in DOMAIN fields.kv |->
                        IF IsCustom(fields.kv[i]) THEN SprintNamesIn(fields.kv[i].v)
                        ELSE <<>>])
    IN  IF assigned = <<>> THEN Null ELSE assigned[1]

\* sprint_name after the scan of the custom fields: None, overwritten by every
\* sprint object met, so the last assignment stands.
SprintNameOf(issue) ==
    LET fields == FieldsOf(issue)
        assigned == Flatten([i \in DOMAIN fields.kv |->
                        IF IsCustom(fields.kv[i]) THEN SprintNamesIn(fields.kv[i].v)
                        ELSE <<>>])
    IN  IF assigned = <<>> THEN Null ELSE assigned[Len(assigned)]

\* created[:10] if created else ''
DateOf(v) == IF Truthy(v) THEN Slice(v.s, 10) ELSE ""

\* The per-issue summary; p is platform, the classifier's result for issue.
ItemOf(issue, p) ==
    LET fields == FieldsOf(issue)
        names  == FixVersionNames(FixVersionsOf(issue))
    IN  [key        |-> Get(issue, "key", Str("")),
         summary    |-> Get(fields, "summary", Str("")),
         status     |-> StatusNameOf(issue).s,
         priority   |-> PriorityOf(issue),
         assignee   |-> AssigneeOf(issue),
         platform   |-> Or(p, Str("Unknown")).s,
         created    |-> DateOf(Get(fields, "created", Str(""))),
         updated    |-> DateOf(Get(fields, "updated", Str(""))),
         duedate    |-> DateOf(Get(fields, "duedate", Str(""))),
         sprint     |-> Or(SprintNameOf(issue), Str("No Sprint")).s,
         type       |-> IssueTypeOf(issue).s,
         fixversion |-> IF names # <<>> THEN Join(", ", names) ELSE ""]

\* The compact summary appended to a release's issue list.
ReleaseItemOf(issue, p) ==
    [key      |-> Get(issue, "key", Str("")),
     summary  |-> Get(FieldsOf(issue), "summary", Str("")),
     status   |-> StatusNameOf(issue).s,
     type     |-> IssueTypeOf(issue).s,
     priority |-> PriorityOf(issue),
     assignee |-> AssigneeOf(issue),
     platform |-> Or(p, Str("Unknown")).s]

\* Whether one iteration of build_detailed_data's loop raises.
build_detailed_data_raises(issue) ==
    LET fields == FieldsOf(issue) IN
    \/ fields.t # "dict"
    \/ Get(fields, "issuetype", EmptyDict).t # "dict"
    \/ Get(fields, "status", EmptyDict).t # "dict"
    \/ LET v == Get(fields, "priority", Null) IN Truthy(v) /\ v.t # "dict"
    \/ LET v == Get(fields, "assignee", Null) IN Truthy(v) /\ v.t # "dict"
    \/ LET v == Or(Get(fields, "fixVersions", EmptyList), EmptyList) IN
       \/ ~Iterable(v)
       \/ \E i \in DOMAIN Iter(v) : Iter(v)[i].t # "dict"
       \/ \E i \in DOMAIN Iter(v) :
            LET n == Get(Iter(v)[i], "name", Null) IN Truthy(n) /\ n.t # "str"
    \/ detect_platform_raises(issue)
    \/ \E k \in {"created", "updated", "duedate"} :
            LET v == Get(fields, k, Str("")) IN Truthy(v) /\ v.t \notin {"str", "list"}
    \/ IssueTypeOf(issue).t # "str"

\* Only the capitalised spellings are recognised.
TypeBucketExactCase(issue_type) ==
    CASE issue_type = "Bug"      -> "bugs"
      [] issue_type = "Task"     -> "tasks"
      [] issue_type = "Sub-task" -> "subtasks"
      [] issue_type = "Story"    -> "stories"
      [] OTHER                   -> "none"

\* The if / elif chain on type_upper: the bucket and counter of the type.
TypeBucket(issue_type) ==
    LET type_upper == Upper(issue_type)
    IN  CASE type_upper = "BUG"      -> "bugs"
          [] type_upper = "TASK"     -> "tasks"
          [] type_upper = "SUB-TASK" -> "subtasks"
          [] type_upper = "STORY"    -> "stories"
          [] OTHER                   -> "none"

\* Only an issue of a recognised type is counted in total.
CountTypeRecognisedOnly(counters, bucket) ==
    IF bucket = "none" THEN counters
    ELSE [counters EXCEPT ![bucket] = @ + 1, !.total = @ + 1]

\* counters[bucket] += 1 (if the type has a bucket); counters['total'] += 1
CountType(counters, bucket) ==
    LET typed == IF bucket = "none" THEN counters
                 ELSE [counters EXCEPT ![bucket] = @ + 1]
    IN  [typed EXCEPT !.total = @ + 1]

ZeroWorkload == [bugs |-> 0, tasks |-> 0, subtasks |-> 0, stories |-> 0, total |-> 0]
ZeroSprint == [bugs |-> 0, tasks |-> 0, subtasks |-> 0, stories |-> 0, total |-> 0,
               statuses |-> EmptyMap]

\* d[k] = zero on first sight of k
WithKey(d, k, zero) == IF k \in DOMAIN d THEN d ELSE d @@ (k :> zero)

\* The bucket is keyed by the per-issue display value, placeholder included.
SprintsAfterByDisplayValue(sprints, sprint_name, bucket, status_name) ==
    LET name == Or(sprint_name, Str("No Sprint")).s
        had  == WithKey(sprints, name, ZeroSprint)
    IN  [had EXCEPT ![name] =
            [CountType(@, bucket) EXCEPT !.statuses = Incr(@, status_name)]]

\* Sprint tracking: if sprint_name: ...
SprintsAfter(sprints, sprint_name, bucket, status_name) ==
    IF Truthy(sprint_name)
    THEN LET had == WithKey(sprints, sprint_name.s, ZeroSprint)
         IN  [had EXCEPT ![sprint_name.s] =
                 [CountType(@, bucket) EXCEPT !.statuses = Incr(@, status_name)]]
    ELSE sprints

\* The bucket a release starts with, its metadata taken from fv.
NewRelease(fv) ==
    [released    |-> Get(fv, "released", Bool(FALSE)),
     releaseDate |-> Get(fv, "releaseDate", Str("")),
     description |-> Get(fv, "description", Str("")),
     bugs |-> 0, tasks |-> 0, subtasks |-> 0, stories |-> 0, total |-> 0,
     statuses |-> EmptyMap, issues |-> <<>>]

\* The metadata is refreshed from every fix-version that names the release.
ReleaseBucketRefreshed(releases, fv) ==
    LET vname == Get(fv, "name", Str("")).s
    IN  IF vname \in DOMAIN releases
        THEN [releases[vname] EXCEPT
                 !.released    = Get(fv, "released", Bool(FALSE)),
                 !.releaseDate = Get(fv, "releaseDate", Str("")),
                 !.description = Get(fv, "description", Str(""))]
        ELSE NewRelease(fv)

\* rel = detailed['releases'][vname], created from fv on first sight of vname.
ReleaseBucket(releases, fv) ==
    LET vname == Get(fv, "name", Str("")).s
    IN  IF vname \in DOMAIN releases THEN releases[vname] ELSE NewRelease(fv)

\* Nameless fix-versions get a bucket of their own, keyed by ''.
SkipsFixVersionNever(fv) == FALSE

\* if not vname: continue
SkipsFixVersion(fv) == ~Truthy(Get(fv, "name", Str("")))

\* The loop over fix_versions from entry i on.
RECURSIVE ReleasesAfter(_, _, _, _, _, _)
ReleasesAfter(releases, fix_versions, i, bucket, status_name, rel_item) ==
    IF i > Len(fix_versions) THEN releases
    ELSE IF SkipsFixVersion(fix_versions[i])
         THEN ReleasesAfter(releases, fix_versions, i + 1, bucket, status_name, rel_item)
         ELSE LET vname == Get(fix_versions[i], "name", Str("")).s
                  rel   == ReleaseBucket(releases, fix_versions[i])
                  upd   == [CountType(rel, bucket) EXCEPT
                               !.statuses = Incr(@, status_name),
                               !.issues   = Append(@, rel_item)]
                  next  == IF vname \in DOMAIN releases
                           THEN [releases EXCEPT ![vname] = upd]
                           ELSE releases @@ (vname :> upd)
              IN  ReleasesAfter(next, fix_versions, i + 1, bucket, status_name,
                                rel_item)

\* One iteration of the loop of build_detailed_data.
DetailedIssue(issue) ==
    /\ pc = "detailed"
    /\ cur' = issue
    /\ IF build_detailed_data_raises(issue)
       THEN /\ pc' = "raised"
            /\ UNCHANGED <<issues, platform, detVars>>
       ELSE \E p \in {detect_platform(issue)} :
            \E it \in {ItemOf(issue, p)} :
            LET bucket      == TypeBucket(it.type)
                sprint_name == SprintNameOf(issue)
                workload    == WithKey(detailed.assignee_workload, it.assignee,
                                       ZeroWorkload)
            IN  /\ pc' = "detailed"
                /\ issues' = Append(issues, issue)
                /\ platform' = p
                /\ item' = it
                /\ detailed' =
                     [bugs     |-> IF bucket = "bugs" THEN Append(detailed.bugs, it)
                                   ELSE detailed.bugs,
                      tasks    |-> IF bucket = "tasks" THEN Append(detailed.tasks, it)
                                   ELSE detailed.tasks,
                      subtasks |-> IF bucket = "subtasks"
                                   THEN Append(detailed.subtasks, it)
                                   ELSE detailed.subtasks,
                      stories  |-> IF bucket = "stories"
                                   THEN Append(detailed.stories, it)
                                   ELSE detailed.stories,
                      assignee_workload |->
                          [workload EXCEPT ![it.assignee] = CountType(@, bucket)],
                      priority_breakdown |->
                          IF bucket = "bugs"
                          THEN Incr(WithKey(detailed.priority_breakdown, it.priority, 0),
                                    it.priority)
                          ELSE detailed.priority_breakdown,
                      sprints  |-> SprintsAfter(detailed.sprints, sprint_name, bucket,
                                                it.status),
                      releases |-> ReleasesAfter(detailed.releases,
                                                 FixVersionsOf(issue), 1, bucket,
                                                 it.status, ReleaseItemOf(issue, p))]
    /\ UNCHANGED <<dashVars, mainVars>>

\* The loop is over: detailed is returned.
DetailedReturn ==
    /\ pc = "detailed"
    /\ pc' = "detailed_returned"
    /\ UNCHANGED <<issues, cur, platform, dashVars, detVars, mainVars>>

InitDetailed ==
    /\ pc = "detailed"
    /\ issues = <<>>
    /\ cur = Null
    /\ platform = Null
    /\ FreshAggregates
    /\ OutsideMain

\* An issue for the detail aggregator: type and status names, assignee and
\* priority fields, custom-field entries and the fixVersions field.
DetailIssue(type, status, assignee, priority, custom, fixVersions) ==
    Dict(<<Entry("key", Str("VZY-7")),
           Entry("fields", Dict(
               <<Entry("summary", Str("Player stuck")),
                 Entry("issuetype", Named(type)),
                 Entry("status", Named(status)),
                 Entry("created", Str("2024-03-05T10:00:00.000+0000")),
                 Entry("labels", EmptyList)>>
            \o Opt("assignee", assignee)
            \o Opt("priority", priority)
            \o custom
            \o Opt("fixVersions", fixVersions)))>>)

MaxDetailIssues == 2

DetailTypePool == {"Bug", "task", "Sub-task", "STORY", "Epic", "Subtask"}
AssigneePool == {Absent, Dict(<<Entry("displayName", Str("Alice"))>>)}
PriorityPool == {Absent, Named("High")}

DetailIssues ==
    { DetailIssue(ty, "Open", a, p, <<>>, Absent) :
        ty \in DetailTypePool, a \in AssigneePool, p \in PriorityPool }

NextDetailed ==
    \/ /\ pc = "detailed" /\ Len(issues) < MaxDetailIssues
       /\ \E issue \in DetailIssues : DetailedIssue(issue)
    \/ DetailedReturn

SpecDetailed == InitDetailed /\ [][NextDetailed]_vars

MaxSprintIssues == 2

Sprint(name, state) ==
    Dict(<<Entry("id", Num(7)), Entry("name", Str(name)), Entry("state", Str(state))>>)

\* The custom-field entries of an issue: no sprint; two sprints in one list;
\* one sprint object; sprints in two custom fields; an object with a name and
\* no state; a list whose last sprint has an empty name; a list with other
\* elements after its sprint; a sprint object under a key that is no custom
\* field.
SprintFieldsPool ==
    { <<>>,
      <<Entry("customfield_10020",
              List(<<Sprint("Sprint 1", "closed"), Sprint("Sprint 2", "active")>>))>>,
      <<Entry("customfield_10020", Sprint("Sprint 1", "active"))>>,
      <<Entry("customfield_10020", List(<<Sprint("Sprint 2", "active")>>)),
        Entry("customfield_10030", Sprint("Sprint 1", "future"))>>,
      <<Entry("customfield_10020", Dict(<<Entry("name", Str("Team X"))>>))>>,
      <<Entry("customfield_10020",
              List(<<Sprint("Sprint 1", "closed"), Sprint("", "active")>>))>>,
      <<Entry("customfield_10020",
              List(<<Sprint("Sprint 1", "active"), Str("x"),
                     Dict(<<Entry("value", Str("QA"))>>)>>))>>,
      <<Entry("sprint", Sprint("Sprint 2", "active"))>> }

SprintIssues ==
    { DetailIssue(ty, st, Absent, Absent, c, Absent) :
        ty \in {"Bug", "Epic"}, st \in {"Open", "Done"}, c \in SprintFieldsPool }

NextSprints ==
    \/ /\ pc = "detailed" /\ Len(issues) < MaxSprintIssues
       /\ \E issue \in SprintIssues : DetailedIssue(issue)
    \/ DetailedReturn

SpecSprints == InitDetailed /\ [][NextSprints]_vars

MaxReleaseIssues == 2

Version10 ==
    Dict(<<Entry("name", Str("1.0")), Entry("released", Bool(FALSE)),
           Entry("releaseDate", Str("2024-03-05")), Entry("description", Str("first"))>>)
Version10Released ==
    Dict(<<Entry("name", Str("1.0")), Entry("released", Bool(TRUE))>>)
Version20 ==
    Dict(<<Entry("name", Str("2.0")), Entry("released", Bool(TRUE)),
           Entry("releaseDate", Str("2024-06-01"))>>)
VersionNoName == Dict(<<Entry("released", Bool(TRUE)), Entry("description", Str("draft"))>>)
VersionEmptyName == Dict(<<Entry("name", Str("")), Entry("released", Bool(FALSE))>>)

FixVersionsPool ==
    { Absent, Null, EmptyList,
      List(<<Version10>>),
      List(<<Version10Released>>),
      List(<<Version10, Version20>>),
      List(<<VersionNoName>>),
      List(<<Version20, VersionEmptyName>>),
      List(<<Version10Released, Version10>>) }

ReleaseIssues ==
    { DetailIssue(ty, "Open", Absent, Absent, <<>>, fv) :
        ty \in {"Bug", "Epic"}, fv \in FixVersionsPool }

NextReleases ==
    \/ /\ pc = "detailed" /\ Len(issues) < MaxReleaseIssues
       /\ \E issue \in ReleaseIssues : DetailedIssue(issue)
    \/ DetailedReturn

SpecReleases == InitDetailed /\ [][NextReleases]_vars

-----------------------------------------------------------------------------
(* C5 .. C9                                                                *)

\* A step of the detail loop that has consumed an issue (cur' is the issue).
DetailedConsumed == pc = "detailed" /\ issues' = Append(issues, cur')

TypeBuckets == {"bugs", "tasks", "subtasks", "stories"}

\* The sequence a type word selects.
BucketOfWord ==
    [w \in {"BUG", "TASK", "SUB-TASK", "STORY"} |->
        CASE w = "BUG" -> "bugs" [] w = "TASK" -> "tasks"
          [] w = "SUB-TASK" -> "subtasks" [] w = "STORY" -> "stories"]

\* The counters of a mapping entry, all zero when the key is not there yet.
CountersAt(d, k, zero) == IF k \in DOMAIN d THEN d[k] ELSE zero

\* C5: a consumed issue is appended to the one sequence among bugs, tasks,
\* subtasks, stories whose word BUG, TASK, SUB-TASK, STORY equals its type name
\* ignoring case, and to no other; an issue of any other type is appended to
\* none, and still adds one to its assignee's total and to no type counter.
C5_AtMostOneTypeBucket ==
    [][DetailedConsumed =>
        LET words  == {w \in DOMAIN BucketOfWord : TypeIs(cur', w)}
            chosen == {BucketOfWord[w] : w \in words}
            grown  == {b \in TypeBuckets : detailed'[b] # detailed[b]}
            before == CountersAt(detailed.assignee_workload, item'.assignee,
                                 ZeroWorkload)
            after  == detailed'.assignee_workload[item'.assignee]
        IN  /\ Cardinality(grown) <= 1
            /\ grown = chosen
            /\ \A b \in grown : detailed'[b] = Append(detailed[b], item')
            /\ after.total = before.total + 1
            /\ \A b \in TypeBuckets :
                  after[b] = before[b] + (IF b \in chosen THEN 1 ELSE 0)]_vars

\* A bug and then an issue of another type, both unassigned, have been
\* consumed: one entry in bugs, none elsewhere, and a total of 2.
C5_Witness ==
    /\ pc = "detailed"
    /\ Len(issues) = 2
    /\ TypeIs(issues[1], "BUG")
    /\ TypeIs(cur, "Subtask")
    /\ Len(detailed.bugs) = 1
    /\ detailed.tasks = <<>> /\ detailed.subtasks = <<>> /\ detailed.stories = <<>>
    /\ "Unassigned" \in DOMAIN detailed.assignee_workload
    /\ detailed.assignee_workload["Unassigned"] =
          [bugs |-> 1, tasks |-> 0, subtasks |-> 0, stories |-> 0, total |-> 2]

\* The release buckets a step has created or changed.
ReleasesTouched ==
    {n \in DOMAIN detailed'.releases :
        n \notin DOMAIN detailed.releases
        \/ detailed'.releases[n] # detailed.releases[n]}

ReleaseTotalAt(rels, n) == IF n \in DOMAIN rels THEN rels[n].total ELSE 0
ReleaseIssuesAt(rels, n) == IF n \in DOMAIN rels THEN rels[n].issues ELSE <<>>

\* The entries of the issue's fixVersions that carry the (non-empty) name n.
NamedEntries(issue, n) ==
    {i \in DOMAIN FixVersionsOf(issue) :
        Get(FixVersionsOf(issue)[i], "name", Str("")) = Str(n)}

\* C6 as stated: an issue with N fix-versions touches N release buckets, each
\* getting one more in total and one more issue summary; none when N is 0.
C6_OneBucketPerFixVersion ==
    [][DetailedConsumed =>
        /\ Cardinality(ReleasesTouched) = Len(FixVersionsOf(cur'))
        /\ \A n \in ReleasesTouched :
              /\ detailed'.releases[n].total = ReleaseTotalAt(detailed.releases, n) + 1
              /\ Len(detailed'.releases[n].issues) =
                    Len(ReleaseIssuesAt(detailed.releases, n)) + 1]_vars

\* C6 (amended): each fix-version of the issue that carries a non-empty name
\* adds one to the total of the bucket of that name and appends one summary of
\* the issue to it (N entries of N different names: N buckets, one each); a
\* fix-version with a missing or empty name contributes to no bucket, and an
\* issue with no fix-versions leaves the releases as they are.
C6_OnePerNamedFixVersion ==
    [][DetailedConsumed =>
        LET names == {n \in {Get(FixVersionsOf(cur')[i], "name", Str("")).s :
                                i \in DOMAIN FixVersionsOf(cur')} : n # ""}
        IN  /\ DOMAIN detailed'.releases = DOMAIN detailed.releases \cup names
            /\ "" \notin DOMAIN detailed'.releases
            /\ ReleasesTouched = names
            /\ \A n \in names :
                  LET k == Cardinality(NamedEntries(cur', n))
                      was == ReleaseIssuesAt(detailed.releases, n)
                      now == detailed'.releases[n].issues
                  IN  /\ detailed'.releases[n].total =
                            ReleaseTotalAt(detailed.releases, n) + k
                      /\ Len(now) = Len(was) + k
                      /\ SubSeq(now, 1, Len(was)) = was
                      /\ \A j \in (Len(was) + 1)..Len(now) :
                            now[j] = ReleaseItemOf(cur', platform')
            /\ FixVersionsOf(cur') = <<>> => detailed'.releases = detailed.releases]_vars

\* An issue with one named and one empty-named fix-version has been consumed:
\* the named bucket holds it once and there is no other bucket.
C6_Witness ==
    /\ pc = "detailed"
    /\ Len(issues) = 1
    /\ FixVersionsOf(cur) = <<Version20, VersionEmptyName>>
    /\ DOMAIN detailed.releases = {"2.0"}
    /\ detailed.releases["2.0"].total = 1
    /\ Len(detailed.releases["2.0"].issues) = 1

\* The metadata of a release bucket.
Metadata(rel) == <<rel.released, rel.releaseDate, rel.description>>

\* The metadata the first fix-version named n of the issue carries, with the
\* defaults False, '', '' for what it does not carry.
FirstMetadata(issue, n) ==
    LET fv == FixVersionsOf(issue)[CHOOSE i \in NamedEntries(issue, n) :
                                      \A j \in NamedEntries(issue, n) : i <= j]
    IN  <<Get(fv, "released", Bool(FALSE)), Get(fv, "releaseDate", Str("")),
          Get(fv, "description", Str(""))>>

\* C7: the metadata of a release bucket is that of the first fix-version of
\* its name in the first issue, in input order, that references the name, and
\* no later issue (or later entry) changes it; later issues only change the
\* counters, the status breakdown and the issue list.
C7_MetadataFromFirstSight ==
    pc \in {"detailed", "detailed_returned"} =>
        \A n \in DOMAIN detailed.releases :
            LET refs == {i \in DOMAIN issues : NamedEntries(issues[i], n) # {}}
            IN  /\ refs # {}
                /\ Metadata(detailed.releases[n]) =
                      FirstMetadata(issues[CHOOSE i \in refs : \A j \in refs : i <= j], n)

\* Two issues have referenced version 1.0, the first unreleased with a date
\* and a description, the second released without them: the bucket counts
\* both and keeps the first's metadata.
C7_Witness ==
    /\ pc = "detailed_returned"
    /\ Len(issues) = 2
    /\ FixVersionsOf(issues[1]) = <<Version10>>
    /\ FixVersionsOf(issues[2]) = <<Version10Released>>
    /\ detailed.releases["1.0"].total = 2
    /\ Metadata(detailed.releases["1.0"]) =
          <<Bool(FALSE), Str("2024-03-05"), Str("first")>>

\* The objects with both a 'name' and a 'state' property the issue's custom
\* fields hold, in iteration order: over the custom fields (keys starting with
\* customfield_, values not empty), and over the elements of list values.
SprintObjects(issue) ==
    LET kv == FieldsOf(issue).kv
        qualifies(v) == v.t = "dict" /\ Has(v, "name") /\ Has(v, "state")
    IN  Flatten([i \in DOMAIN kv |->
            IF ~(StartsWith(kv[i].k, "customfield_") /\ Truthy(kv[i].v)) THEN <<>>
            ELSE IF kv[i].v.t = "list"
                 THEN SelectSeq(kv[i].v.xs, qualifies)
                 ELSE IF qualifies(kv[i].v) THEN <<kv[i].v>> ELSE <<>>])

\* The name of the last such object; '' when there is none.
LastSprintName(issue) ==
    LET objs == SprintObjects(issue)
    IN  IF objs = <<>> THEN "" ELSE Get(objs[Len(objs)], "name", Str("")).s

\* C8 as stated: the 'sprint' value is the name of the last object with a name
\* and a state, and 'No Sprint' when no object qualifies.
C8_SprintIsLastName ==
    [][DetailedConsumed =>
        item'.sprint = (IF SprintObjects(cur') = <<>> THEN "No Sprint"
                        ELSE LastSprintName(cur'))]_vars

\* C8 (amended): the 'sprint' value is the name of the last object with a name
\* and a state when that name is not empty, and 'No Sprint' when no object
\* qualifies or the last qualifying object's name is empty.
C8_SprintIsLastNonEmptyName ==
    [][DetailedConsumed =>
        item'.sprint = (IF LastSprintName(cur') = "" THEN "No Sprint"
                        ELSE LastSprintName(cur'))]_vars

\* An issue with sprint objects of different names in two custom fields has
\* been consumed, and its sprint is the name in the later field.
C8_Witness ==
    /\ pc = "detailed"
    /\ Len(issues) = 1
    /\ Len(SprintObjects(cur)) = 2
    /\ Get(SprintObjects(cur)[1], "name", Null) = Str("Sprint 2")
    /\ Get(SprintObjects(cur)[2], "name", Null) = Str("Sprint 1")
    /\ Has(FieldsOf(cur), "customfield_10030")
    /\ item.sprint = "Sprint 1"

\* C9: only an issue on which a real (non-empty) sprint name was found creates
\* or updates a sprint bucket, the one keyed by that name: its counter of the
\* issue's type (if the type has one), its total and its count of the issue's
\* status go up by one and nothing else in 'sprints' changes; an issue with no
\* resolved sprint leaves 'sprints' unchanged, and 'No Sprint', the per-issue
\* default, is no key of 'sprints'.
C9_SprintBucketOnlyForRealName ==
    [][DetailedConsumed =>
        LET name  == LastSprintName(cur')
            old   == detailed.sprints
            new   == detailed'.sprints
            words == {w \in DOMAIN BucketOfWord : TypeIs(cur', w)}
            st    == StatusNameOf(cur').s
        IN  /\ "No Sprint" \notin DOMAIN new
            /\ IF name = ""
               THEN new = old /\ item'.sprint = "No Sprint"
               ELSE LET before == CountersAt(old, name, ZeroSprint)
                    IN  /\ DOMAIN new = DOMAIN old \cup {name}
                        /\ \A n \in DOMAIN old \ {name} : new[n] = old[n]
                        /\ new[name].total = before.total + 1
                        /\ \A b \in TypeBuckets :
                              new[name][b] = before[b]
                                + (IF b \in {BucketOfWord[w] : w \in words}
                                   THEN 1 ELSE 0)
                        /\ DOMAIN new[name].statuses =
                              DOMAIN before.statuses \cup {st}
                        /\ \A x \in DOMAIN new[name].statuses :
                              new[name].statuses[x] =
                                (IF x \in DOMAIN before.statuses
                                 THEN before.statuses[x] ELSE 0)
                                + (IF x = st THEN 1 ELSE 0)]_vars

\* An issue in Sprint 1 and then an issue with no sprint have been consumed:
\* the only bucket is Sprint 1, holding the first issue alone.
C9_Witness ==
    /\ pc = "detailed"
    /\ Len(issues) = 2
    /\ LastSprintName(issues[1]) = "Sprint 1"
    /\ SprintObjects(cur) = <<>>
    /\ item.sprint = "No Sprint"
    /\ DOMAIN detailed.sprints = {"Sprint 1"}
    /\ detailed.sprints["Sprint 1"].total = 1

-----------------------------------------------------------------------------
(* The three functions on one issue whose fields are absent, null or of     *)
(* another shape.                                                           *)

ShapeTypePool == {Absent, Null, Named("Bug")}
ShapeStatusPool == {Absent, Null, Named("Open")}
ShapeLabelsPool == {Absent, Null, StrList(<<"ios">>)}
ShapeSummaryPool == {Absent, Null, Str("Player stuck")}
ShapeCustomPool ==
    { Absent, Null, Dict(<<Entry("id", Num(3))>>),
      List(<<Str("tizen"), Dict(<<Entry("value", Str("QA"))>>), Null>>) }
AbsentOrNull == {Absent, Null}

ShapeIssue(type, status, labels, components, summary, assignee, priority, fixVersions, created, custom) ==
    Dict(<<Entry("key", Str("VZY-9")),
           Entry("fields", Dict(
               Opt("summary", summary) \o Opt("issuetype", type)
            \o Opt("status", status) \o Opt("labels", labels)
            \o Opt("components", components) \o Opt("assignee", assignee)
            \o Opt("priority", priority) \o Opt("fixVersions", fixVersions)
            \o Opt("created", created) \o Opt("customfield_10020", custom)))>>)

\* An issue with no 'fields' at all, and every combination of the pools.
ShapeIssues ==
    {Dict(<<Entry("key", Str("VZY-9"))>>)}
    \cup { ShapeIssue(ty, st, l, c, s, a, p, fv, cr, x) :
             ty \in ShapeTypePool, st \in ShapeStatusPool, l \in ShapeLabelsPool,
             c \in AbsentOrNull, s \in ShapeSummaryPool, a \in AbsentOrNull,
             p \in AbsentOrNull, fv \in AbsentOrNull, cr \in AbsentOrNull,
             x \in ShapeCustomPool }

\* One of the three functions is entered: detect_platform on an issue, or an
\* aggregator on a list of one issue.
InitShapes ==
    /\ issues = <<>>
    /\ platform = Null
    /\ FreshAggregates
    /\ OutsideMain
    /\ \/ pc = "call" /\ cur \in ShapeIssues
       \/ pc \in {"dashboard", "detailed"} /\ cur = Null

NextShapes ==
    \/ DetectPlatform
    \/ /\ pc = "dashboard" /\ issues = <<>>
       /\ \E issue \in ShapeIssues : DashboardIssue(issue)
    \/ DashboardReturn
    \/ /\ pc = "detailed" /\ issues = <<>>
       /\ \E issue \in ShapeIssues : DetailedIssue(issue)
    \/ DetailedReturn

SpecShapes == InitShapes /\ [][NextShapes]_vars

-----------------------------------------------------------------------------
(* C10                                                                     *)

\* Whether the field is absent from the issue or null.
Missing(issue, field) ==
    Get(issue, "fields", Null) = Null \/ Get(FieldsOf(issue), field, Null) = Null

\* C10: on an issue whose fields are absent, null or of another shape none of
\* the three functions raises, and the defaults are used: assignee
\* 'Unassigned', priority 'None', platform 'Unknown'.
C10_AbsorbsWithoutRaising ==
    /\ pc # "raised"
    /\ (pc \in {"detailed", "detailed_returned"} /\ issues # <<>>) =>
          /\ Missing(cur, "assignee") => item.assignee = "Unassigned"
          /\ Missing(cur, "priority") => item.priority = "None"
          /\ platform = Null => item.platform = "Unknown"
    /\ (pc \in {"dashboard", "dashboard_returned"} /\ issues # <<>>
            /\ platform = Null /\ matched_counted = 1) =>
          "Unknown" \in DOMAIN matrix

-----------------------------------------------------------------------------
(* fetch_jira_data: the paged fetch. A response is a record                *)
(*   [ok |-> whether the HTTP status is a success, data |-> the JSON body] *)
(* The jql, maxResults and fields keys of the payload are the same on      *)
(* every request and are left out of the payloads.                         *)

\* payload = {...}; if next_page_token: payload['nextPageToken'] = ...
PayloadOf(token) ==
    Dict(IF Truthy(token) THEN <<Entry("nextPageToken", token)>> ELSE <<>>)

\* response = requests.post(url, ..., json=payload): the request is sent and
\* the source's response comes back.
PostRequest(resp) ==
    /\ pc = "request"
    /\ payloads' = Append(payloads, PayloadOf(next_page_token))
    /\ response' = resp
    /\ pc' = "response"
    /\ UNCHANGED <<issues, cur, platform, dashVars, detVars, JIRA_EMAIL,
                   JIRA_API_TOKEN, all_issues, next_page_token, received,
                   data_json, detailed_json>>

\* issues = data.get('issues', [])
PageOf(data) == Get(data, "issues", EmptyList)

\* response.raise_for_status() raises on a non-success status; data.get
\* needs a dict and all_issues.extend(issues) an iterable.
fetch_jira_data_raises(resp) ==
    \/ ~resp.ok
    \/ resp.data.t # "dict"
    \/ ~Iterable(PageOf(resp.data))

\* The loop is left only on a response with neither a token nor an issue.
BreaksLoopOnBoth(token, page) == ~Truthy(token) /\ Len(Iter(page)) = 0

\* if not next_page_token or len(issues) == 0: break
BreaksLoop(token, page) == ~Truthy(token) \/ Len(Iter(page)) = 0

\* The rest of one iteration of the while loop: raise_for_status, extend,
\* the new cursor, and the break that leads to the return.
HandleResponse ==
    /\ pc = "response"
    /\ received' = Append(received, response)
    /\ response' = Null
    /\ IF fetch_jira_data_raises(response)
       THEN /\ pc' = "raised"
            /\ UNCHANGED <<all_issues, next_page_token>>
       ELSE LET page  == PageOf(response.data)
                token == Get(response.data, "nextPageToken", Null)
            IN  /\ all_issues' = all_issues \o Iter(page)
                /\ next_page_token' = token
                /\ pc' = IF BreaksLoop(token, page) THEN "fetch_returned"
                         ELSE "request"
    /\ UNCHANGED <<issues, cur, platform, dashVars, detVars, JIRA_EMAIL,
                   JIRA_API_TOKEN, payloads, data_json, detailed_json>>

MaxRequests == 3

IssueA == Dict(<<Entry("key", Str("VZY-1"))>>)
IssueB == Dict(<<Entry("key", Str("VZY-2"))>>)

FetchPagePool ==
    {Absent, Null, EmptyList, List(<<IssueA>>), List(<<IssueB, IssueA>>)}
FetchTokenPool == {Absent, Null, Str(""), Str("t1"), Str("t2")}

\* A failed request, a body that is no object, and every body made of a
\* page and a token of the pools.
FetchResponses ==
    {[ok |-> FALSE, data |-> EmptyDict], [ok |-> TRUE, data |-> EmptyList]}
    \cup { [ok |-> TRUE,
            data |-> Dict(Opt("issues", pg) \o Opt("nextPageToken", tk))] :
             pg \in FetchPagePool, tk \in FetchTokenPool }

InitFetch ==
    /\ pc = "request"
    /\ issues = <<>>
    /\ cur = Null
    /\ platform = Null
    /\ FreshAggregates
    /\ JIRA_EMAIL = "bot@example.com"
    /\ JIRA_API_TOKEN = "secret"
    /\ FreshFetch
    /\ NoDocuments

NextFetch ==
    \/ /\ pc = "request" /\ Len(payloads) < MaxRequests
       /\ \E resp \in FetchResponses : PostRequest(resp)
    \/ HandleResponse

\* The function is sequential code: once requests.post has returned, the
\* statements after it run.
SpecFetch == InitFetch /\ [][NextFetch]_vars /\ WF_vars(HandleResponse)

-----------------------------------------------------------------------------
(* main: credentials, fetch, matrix, data.json, details, detailed_data.json *)

\* if not JIRA_EMAIL or not JIRA_API_TOKEN: ...; exit(1)
CheckCredentials ==
    /\ pc = "main"
    /\ pc' = IF JIRA_EMAIL = "" \/ JIRA_API_TOKEN = "" THEN "exited"
             ELSE "request"
    /\ UNCHANGED <<issues, cur, platform, dashVars, detVars, mainVars>>

\* issues = fetch_jira_data(); matrix = build_dashboard_data(issues) is
\* entered.
CallBuildDashboard ==
    /\ pc = "fetch_returned"
    /\ pc' = "dashboard"
    /\ UNCHANGED <<issues, cur, platform, dashVars, detVars, mainVars>>

\* with open(output_path, 'w') as f: json.dump(output, f, indent=2), and
\* detailed = build_detailed_data(issues) is entered.
WriteDataJson ==
    /\ pc = "dashboard_returned"
    /\ data_json' = [data |-> matrix, total_issues_fetched |-> Len(all_issues)]
    /\ pc' = "detailed"
    /\ issues' = <<>>
    /\ UNCHANGED <<cur, platform, dashVars, detVars, JIRA_EMAIL, JIRA_API_TOKEN,
                   fetchVars, detailed_json>>

\* detailed['total_issues'] = len(issues); json.dump(detailed, f, indent=2)
WriteDetailedJson ==
    /\ pc = "detailed_returned"
    /\ detailed_json' = [detailed |-> detailed, total_issues |-> Len(all_issues)]
    /\ pc' = "done"
    /\ UNCHANGED <<issues, cur, platform, dashVars, detVars, JIRA_EMAIL,
                   JIRA_API_TOKEN, fetchVars, data_json>>

\* A bug both aggregators accept, an issue neither accepts (its status is
\* null), and a bug only the matrix aggregator accepts (its priority is a
\* string, a field the matrix aggregator does not read).
MainBug == DashIssue(Named("Bug"), Named("Open"), "ios")
MainNullStatus ==
    Dict(<<Entry("key", Str("VZY-2")),
           Entry("fields", Dict(<<Entry("issuetype", Named("Bug")),
                                  Entry("status", Null)>>))>>)
MainTextPriority ==
    Dict(<<Entry("key", Str("VZY-3")),
           Entry("fields", Dict(<<Entry("issuetype", Named("Bug")),
                                  Entry("status", Named("Open")),
                                  Entry("priority", Str("High"))>>))>>)

MainPagePool ==
    {EmptyList, List(<<MainBug>>), List(<<MainNullStatus>>),
     List(<<MainTextPriority>>)}

MainResponses ==
    {[ok |-> FALSE, data |-> EmptyDict]}
    \cup { [ok |-> TRUE,
            data |-> Dict(<<Entry("issues", pg)>> \o Opt("nextPageToken", tk))] :
             pg \in MainPagePool, tk \in {Absent, Str("t1")} }

InitMain ==
    /\ pc = "main"
    /\ issues = <<>>
    /\ cur = Null
    /\ platform = Null
    /\ FreshAggregates
    /\ JIRA_EMAIL \in {"", "bot@example.com"}
    /\ JIRA_API_TOKEN \in {"", "secret"}
    /\ FreshFetch
    /\ NoDocuments

\* Each aggregator's loop runs over the fetched list, in order, to its end.
NextMain ==
    \/ CheckCredentials
    \/ /\ pc = "request" /\ Len(payloads) < MaxRequests
       /\ \E resp \in MainResponses : PostRequest(resp)
    \/ HandleResponse
    \/ CallBuildDashboard
    \/ /\ pc = "dashboard" /\ Len(issues) < Len(all_issues)
       /\ DashboardIssue(all_issues[Len(issues) + 1])
    \/ /\ Len(issues) = Len(all_issues)
       /\ DashboardReturn
    \/ WriteDataJson
    \/ /\ pc = "detailed" /\ Len(issues) < Len(all_issues)
       /\ DetailedIssue(all_issues[Len(issues) + 1])
    \/ /\ Len(issues) = Len(all_issues)
       /\ DetailedReturn
    \/ WriteDetailedJson

SpecMain == InitMain /\ [][NextMain]_vars

-----------------------------------------------------------------------------
(* C11                                                                     *)

\* The run has ended on the credentials check or on an exception.
Aborted == pc \in {"exited", "raised"}

\* C11: a run of main that fails at any step (missing credentials, a failed
\* request on any page, an error raised while aggregating) has written
\* neither data.json nor detailed_data.json.
C11_NoPartialOutput == Aborted => data_json = Null /\ detailed_json = Null

-----------------------------------------------------------------------------
(* C12                                                                     *)

\* The next-page token of a response, None when its body has none.
TokenOf(resp) == Get(resp.data, "nextPageToken", Null)

\* A successful response whose body carries a page: a list of issues, or no
\* 'issues' key at all, which stands for the empty page.
HasPage(resp) ==
    /\ resp.ok
    /\ resp.data.t = "dict"
    /\ PageOf(resp.data).t = "list"

\* A page with no next-page token (none at all, null or the empty string),
\* or an empty page.
LastPage(resp) ==
    /\ HasPage(resp)
    /\ \/ TokenOf(resp) \in {Null, Str("")}
       \/ PageOf(resp.data) = EmptyList

\* The pages of the responses received, one after another.
ReceivedPages == Flatten([i \in DOMAIN received |-> Iter(PageOf(received[i].data))])

\* Requests and responses alternate; the first request carries no token and
\* every later one the token of the response just before it; a last page is
\* the last response, is followed by no request and by the return; what is
\* returned is the pages received, in order.
C12_Pagination ==
    /\ Len(payloads) = Len(received) + (IF response = Null THEN 0 ELSE 1)
    /\ \A i \in DOMAIN payloads :
          IF i = 1 THEN payloads[i] = EmptyDict
          ELSE /\ HasPage(received[i - 1])
               /\ payloads[i] =
                    Dict(<<Entry("nextPageToken", TokenOf(received[i - 1]))>>)
    /\ \A i \in DOMAIN received :
          LastPage(received[i]) =>
              /\ i = Len(received)
              /\ Len(payloads) = i
              /\ pc = "fetch_returned"
    /\ pc = "fetch_returned" =>
          /\ received # <<>>
          /\ LastPage(received[Len(received)])
          /\ all_issues = ReceivedPages

\* C12: the pagination loop of fetch_jira_data sends its requests one after
\* another, each after the first carrying the next-page token of the
\* response just before it; it stops right after the first response with no
\* next-page token or an empty page, sends nothing more, and returns the
\* pages received concatenated in order, nothing lost or duplicated; and once
\* the source has returned such a response the function returns.
C12_PagedFetch ==
    /\ []C12_Pagination
    /\ (response # Null /\ LastPage(response)) ~> (pc = "fetch_returned")

\* Two pages have been received, three issues in all, and the fetch has
\* returned.
C12_Witness ==
    /\ pc = "fetch_returned"
    /\ Len(received) >= 2
    /\ Len(all_issues) >= 3

-----------------------------------------------------------------------------
(* C13                                                                     *)

MaxCountIssues == 2

CountTypePool == {"Bug", "Story", "Epic"}
CountStatusPool == {"Open", "Done"}
CountFixVersionsPool ==
    {List(<<Version10, Version20>>), List(<<Version10Released, Version10>>)}

\* Issues of every assignee and priority with no fix-version, and issues of
\* one assignee in two releases, or twice in one, in every status.
CountIssues ==
    { DetailIssue(ty, "Open", a, p, <<>>, Absent) :
        ty \in CountTypePool, a \in AssigneePool, p \in PriorityPool }
    \cup { DetailIssue(ty, st, Dict(<<Entry("displayName", Str("Alice"))>>),
                       Absent, <<>>, fv) :
             ty \in CountTypePool, st \in CountStatusPool,
             fv \in CountFixVersionsPool }

NextCounts ==
    \/ /\ pc = "detailed" /\ Len(issues) < MaxCountIssues
       /\ \E issue \in CountIssues : DetailedIssue(issue)
    \/ DetailedReturn

SpecCounts == InitDetailed /\ [][NextCounts]_vars

\* The sum of f over the keys in S.
RECURSIVE SumOver(_, _)
SumOver(f, S) ==
    IF S = {} THEN 0
    ELSE LET k == CHOOSE x \in S : TRUE IN f[k] + SumOver(f, S \ {k})

Sum(f) == SumOver(f, DOMAIN f)

\* The issues of the four recognised types counted in a bucket.
Typed(counters) ==
    counters.bugs + counters.tasks + counters.subtasks + counters.stories

\* C13: after any list of issues, the assignees' 'total' counters add up to
\* the number of issues processed; the length of 'bugs' is the sum of the
\* priority_breakdown values and the sum of the assignees' 'bugs' counters; and
\* every release bucket's 'total' is the length of its 'issues' list and the
\* sum of its 'statuses' counts, with bugs + tasks + subtasks + stories <= total.
C13_CountsConsistent ==
    LET workload == detailed.assignee_workload
        releases == detailed.releases
    IN  /\ Sum([a \in DOMAIN workload |-> workload[a].total]) = Len(issues)
        /\ Len(detailed.bugs) = Sum(detailed.priority_breakdown)
        /\ Len(detailed.bugs) = Sum([a \in DOMAIN workload |-> workload[a].bugs])
        /\ \A n \in DOMAIN releases :
              /\ releases[n].total = Len(releases[n].issues)
              /\ releases[n].total = Sum(releases[n].statuses)
              /\ Typed(releases[n]) <= releases[n].total

\* Two issues of two assignees have been processed, one of them a bug, and a
\* release holds two entries of an issue of no recognised type.
C13_Witness ==
    /\ pc = "detailed_returned"
    /\ Len(issues) = 2
    /\ Cardinality(DOMAIN detailed.assignee_workload) = 2
    /\ Len(detailed.bugs) = 1
    /\ \E n \in DOMAIN detailed.releases :
          /\ detailed.releases[n].total = 2
          /\ Typed(detailed.releases[n]) = 0

====
